---- MODULE Spec2Model ----
(***************************************************************************)
(* nogging: locate nogging.yaml by walking up from a starting directory,   *)
(* read the mapping under the key "nogging" and configure one logger of    *)
(* the logging registry per entry (src/nogging/__init__.py).               *)
(*                                                                         *)
(* The directory chain is 0 (the filesystem root), 1, ..., MaxDepth, with  *)
(* d - 1 the parent of d.  A file of the chain holds what yaml.safe_load   *)
(* makes of it.  Python values are tagged records (None, PyStr, PyInt,      *)
(* PyList, PyDict);                                                        *)
(* a dict is a record with a field keys (the keys present).  A Handler is  *)
(* an object: its field id is its identity, and Handler equality is        *)
(* identity.                                                               *)
(***************************************************************************)
EXTENDS Integers, Sequences, FiniteSets

VARIABLES
    fs,        \* directory -> the file nogging.yaml there (parsed), or NoFile
    cwd,       \* the directory a relative start path resolves to
    registry,  \* logger name -> [level, handlers]: logging's logger table
    open,      \* ids of the FileHandlers whose stream is open
    nextId,    \* the identity of the next Handler object
    calls,     \* calls of conf and setup so far
    last       \* the last call: its arguments, pre-state, result, output

vars == <<fs, cwd, registry, open, nextId, calls, last>>

----------------------------------------------------------------------------
\* Bounds of the model.

MaxDepth == 2

MaxHandlers == 3

MaxPre == 3

MaxCalls == 2

----------------------------------------------------------------------------
\* Python values.

None == [tag |-> "none"]

PyStr(s) == [tag |-> "str", str |-> s]

PyInt(i) == [tag |-> "int", int |-> i]

PyList(items) == [tag |-> "list", items |-> items]

PyDict(items) == [tag |-> "dict", items |-> items]

APP == "nogging"

LoggerNames == {"app", "lib"}

Dirs == 0 .. MaxDepth

\* p.parent: the root is its own parent.
Parent(p) == IF p = 0 THEN 0 ELSE p - 1

NoFile == [tag |-> "nofile"]

\* A parsed file whose top level is a mapping: its keys, and the value under
\* "nogging" (None or a PyDict of logger entries) when that key is there.
YamlMap(keys, value) == [tag |-> "map", keys |-> keys, nogging |-> value]

\* (p / c).exists()
Exists(files, p) == files[p].tag # "nofile"

\* One line of log(): print(now, thread, __name__, *args, sep=' | ').
log(level, msg) == [level |-> level, msg |-> msg]

----------------------------------------------------------------------------
\* conf

\* The while/else of conf: the directory the loop leaves p at, and what it
\* logged.  The loop body runs only while p is not the root.
RECURSIVE Ascend(_, _)
Ascend(files, p) ==
    IF Parent(p) = p
    THEN [p |-> p, logs |-> <<log("WARNING", "not found")>>]
    ELSE IF Exists(files, p)
         THEN [p |-> p, logs |-> <<log("INFO", "using config file")>>]
         ELSE Ascend(files, Parent(p))

\* Subscript without the except FileNotFoundError clause.
Subscript_uncaught(a, key) ==
    LET file == a.files[a.p]
    IN  IF file.tag = "nofile"
        THEN [ret |-> None, raised |-> "FileNotFoundError", logs |-> a.logs]
        ELSE IF file.tag # "map"
             THEN [ret |-> None, raised |-> "TypeError", logs |-> a.logs]
             ELSE IF key \notin file.keys
                  THEN [ret |-> None, raised |-> "none",
                        logs |-> Append(a.logs, log("ERROR", "format error"))]
                  ELSE [ret |-> file[key], raised |-> "none", logs |-> a.logs]

\* yaml.safe_load((p / c).open())[key] inside try/except: FileNotFoundError
\* is swallowed, KeyError is logged, anything else propagates.
Subscript(a, key) ==
    LET file == a.files[a.p]
    IN  IF file.tag = "nofile"
        THEN [ret |-> None, raised |-> "none", logs |-> a.logs]
        ELSE IF file.tag # "map"
             THEN [ret |-> None, raised |-> "TypeError", logs |-> a.logs]
             ELSE IF key \notin file.keys
                  THEN [ret |-> None, raised |-> "none",
                        logs |-> Append(a.logs, log("ERROR", "format error"))]
                  ELSE [ret |-> file[key], raised |-> "none", logs |-> a.logs]

\* conf with the first test of the loop made after the first p = p.parent.
conf_from_parent(files, path) ==
    LET a == Ascend(files, Parent(path))
        r == Subscript([files |-> files, p |-> a.p, logs |-> a.logs], APP)
    IN  [ret |-> r.ret, raised |-> r.raised, logs |-> r.logs, opens |-> <<a.p>>]

conf(files, path) ==
    LET a == Ascend(files, path)
        r == Subscript([files |-> files, p |-> a.p, logs |-> a.logs], APP)
    IN  [ret |-> r.ret, raised |-> r.raised, logs |-> r.logs, opens |-> <<a.p>>]

----------------------------------------------------------------------------
\* Nogging

\* getattr(logging, level) for the level names of the logging module.
LevelByName(name) ==
    CASE name = "CRITICAL" -> 50
      [] name = "ERROR" -> 40
      [] name = "WARNING" -> 30
      [] name = "INFO" -> 20
      [] name = "DEBUG" -> 10
      [] name = "NOTSET" -> 0

get_level(handler_config) ==
    IF "level" \in handler_config.keys
    THEN IF handler_config.level.tag = "str"
         THEN PyInt(LevelByName(handler_config.level.str))
         ELSE handler_config.level
    ELSE None

\* get_handlers returning an empty list for a config without the key.
get_handlers_or_empty(handler_config) ==
    IF "handlers" \in handler_config.keys
    THEN handler_config.handlers
    ELSE PyList(<<>>)

get_handlers(handler_config) ==
    IF "handlers" \in handler_config.keys
    THEN handler_config.handlers
    ELSE None

\* A new Handler object: level NOTSET, no formatter.
NewHandler(id, type, target) ==
    [id |-> id, type |-> type, level |-> 0, formatter |-> "None",
     target |-> target]

\* get_handler falling back to a StreamHandler for a type it does not know.
get_handler_default_stream(handler_config, id) ==
    LET handler_type == handler_config.type
    IN  IF handler_type = "FileHandler"
        THEN IF "filename" \in handler_config.keys
             THEN [raised |-> "none", made |-> TRUE, opened |-> {id}, logs |-> <<>>,
                   handler |-> NewHandler(id, "FileHandler", handler_config.filename)]
             ELSE [raised |-> "KeyError", made |-> FALSE, opened |-> {}, logs |-> <<>>,
                   handler |-> NewHandler(id, "FileHandler", "")]
        ELSE [raised |-> "none", made |-> TRUE, opened |-> {},
              logs |-> IF handler_type = "StreamHandler"
                       THEN <<>>
                       ELSE <<log("WARNING", "invalid handler type")>>,
              handler |-> NewHandler(id, "StreamHandler", "sys.stdout")]

\* handler_config['filename'] of a config without the key raises KeyError
\* before any file is opened; logging.FileHandler opens its file at once.
get_handler(handler_config, id) ==
    LET handler_type == handler_config.type
    IN  IF handler_type = "FileHandler"
        THEN IF "filename" \in handler_config.keys
             THEN [raised |-> "none", made |-> TRUE, opened |-> {id}, logs |-> <<>>,
                   handler |-> NewHandler(id, "FileHandler", handler_config.filename)]
             ELSE [raised |-> "KeyError", made |-> FALSE, opened |-> {}, logs |-> <<>>,
                   handler |-> NewHandler(id, "FileHandler", "")]
        ELSE IF handler_type = "StreamHandler"
             THEN [raised |-> "none", made |-> TRUE, opened |-> {}, logs |-> <<>>,
                   handler |-> NewHandler(id, "StreamHandler", "sys.stdout")]
             ELSE [raised |-> "none", made |-> FALSE, opened |-> {},
                   logs |-> <<log("WARNING", "invalid handler type")>>,
                   handler |-> NewHandler(id, handler_type, "")]

get_handler_formatter(handler_config) ==
    IF "format" \in handler_config.keys
    THEN PyStr(handler_config.format)
    ELSE None

\* Logger.removeHandler: if hdlr in self.handlers: self.handlers.remove(hdlr).
removeHandler(handlers, hdlr) ==
    LET at == {k \in 1 .. Len(handlers) : handlers[k].id = hdlr.id}
    IN  IF at = {}
        THEN handlers
        ELSE LET k == CHOOSE x \in at : \A y \in at : x <= y
             IN  SubSeq(handlers, 1, k - 1) \o SubSeq(handlers, k + 1, Len(handlers))

\* Logger.addHandler: if not (hdlr in self.handlers): self.handlers.append(hdlr).
addHandler(handlers, hdlr) ==
    IF \E k \in 1 .. Len(handlers) : handlers[k].id = hdlr.id
    THEN handlers
    ELSE Append(handlers, hdlr)

\* for _ in logger.handlers: logger.removeHandler(_)
\* The list iterator keeps an index into the list that removeHandler is
\* shrinking: i is the (1-based) index of the next element it yields.
RECURSIVE RemoveLoop(_, _)
RemoveLoop(handlers, i) ==
    IF i > Len(handlers)
    THEN handlers
    ELSE RemoveLoop(removeHandler(handlers, handlers[i]), i + 1)

\* for handler_config in handlers or []: ... logger.addHandler(handler)
\* s is the state of the call:
\* [registry, open, nextId, logs, attached, raised].
RECURSIVE AddLoop(_, _, _, _)
AddLoop(s, name, items, i) ==
    IF i > Len(items) \/ s.raised # "none"
    THEN s
    ELSE LET handler_config == items[i]
             g == get_handler(handler_config, s.nextId)
             formatter == get_handler_formatter(handler_config)
             level == get_level(handler_config)
             h1 == IF formatter.tag # "none"
                   THEN [g.handler EXCEPT !.formatter = formatter.str]
                   ELSE g.handler
             h2 == IF level.tag # "none"
                   THEN [h1 EXCEPT !.level = level.int]
                   ELSE h1
         IN  IF g.raised # "none"
             THEN [s EXCEPT !.raised = g.raised]
             ELSE IF ~g.made
                  THEN AddLoop([s EXCEPT !.logs = @ \o g.logs], name, items, i + 1)
                  ELSE AddLoop(
                         [s EXCEPT !.registry[name].handlers = addHandler(@, h2),
                                   !.open = @ \cup g.opened,
                                   !.nextId = @ + 1,
                                   !.attached[name] = Append(@, h2)],
                         name, items, i + 1)

\* handlers or []
OrEmpty(handlers) == IF handlers.tag = "list" THEN handlers.items ELSE <<>>

setup_logger(s, name, config) ==
    LET level == get_level(config)
        s1 == IF level.tag # "none"
              THEN [s EXCEPT !.registry[name].level = level.int]
              ELSE s
        handlers == get_handlers(config)
    IN  IF handlers.tag # "none"
        THEN LET s2 == [s1 EXCEPT !.registry[name].handlers = RemoveLoop(@, 1)]
             IN  AddLoop(s2, name, OrEmpty(handlers), 1)
        ELSE s1

\* conf(path) or {}
OrEmptyDict(ret) == IF ret.tag = "dict" THEN ret.items ELSE <<>>

\* for k, v in (...).items(): self._setup_logger(name=k, config=v)
RECURSIVE ItemsLoop(_, _, _)
ItemsLoop(s, items, i) ==
    IF i > Len(items) \/ s.raised # "none"
    THEN s
    ELSE ItemsLoop(setup_logger(s, items[i].name, items[i].config), items, i + 1)

NoneAttached == [n \in LoggerNames |-> <<>>]

setup(files, path, reg, op, id) ==
    LET c == conf(files, path)
        s0 == [registry |-> reg, open |-> op, nextId |-> id, logs |-> c.logs,
               attached |-> NoneAttached, raised |-> c.raised]
    IN  [conf |-> c, s |-> ItemsLoop(s0, OrEmptyDict(c.ret), 1)]

----------------------------------------------------------------------------
\* The inputs: handler configs, logger configs, documents, file systems.

\* A dict with the keys whose value is not Absent.
Absent == [tag |-> "absent"]

HandlerConfig(type, level, format, filename) ==
    [keys |-> {"type"}
              \cup (IF level.tag = "absent" THEN {} ELSE {"level"})
              \cup (IF format = "" THEN {} ELSE {"format"})
              \cup (IF filename = "" THEN {} ELSE {"filename"}),
     type |-> type, level |-> level, format |-> format, filename |-> filename]

StreamConfig == HandlerConfig("StreamHandler", PyStr("INFO"), "%(message)s", "")

FileConfig == HandlerConfig("FileHandler", Absent, "", "app.log")

BogusConfig == HandlerConfig("Bogus", Absent, "", "")

\* A FileHandler entry without its filename.
NamelessConfig == HandlerConfig("FileHandler", PyInt(30), "", "")

HandlerConfigs == {StreamConfig, FileConfig, BogusConfig, NamelessConfig}

HandlerLists == UNION {[1 .. k -> HandlerConfigs] : k \in 0 .. MaxHandlers}

LoggerConfig(level, handlers) ==
    [keys |-> (IF level.tag = "absent" THEN {} ELSE {"level"})
              \cup (IF handlers.tag = "absent" THEN {} ELSE {"handlers"}),
     level |-> level, handlers |-> handlers]

LevelValues == {Absent, PyStr("DEBUG"), PyInt(40)}

HandlersValues == {Absent, None} \cup {PyList(l) : l \in HandlerLists}

LoggerConfigs == {LoggerConfig(l, h) : l \in LevelValues, h \in HandlersValues}

Entry(name, config) == [name |-> name, config |-> config]

\* The documents: no logger, "app", or "app" and "lib" sharing one block (the
\* merge key of the module's docstring: <<: *debug).
Documents ==
    {<<>>}
    \cup {<<Entry("app", c)>> : c \in LoggerConfigs}
    \cup {<<Entry("app", c), Entry("lib", c)>> : c \in LoggerConfigs}

DocA == PyDict(<<Entry("app", LoggerConfig(PyStr("DEBUG"), Absent))>>)

DocB == PyDict(<<Entry("lib", LoggerConfig(PyInt(40), PyList(<<StreamConfig>>)))>>)

\* What a nogging.yaml of the chain may hold: nothing there, an empty file,
\* a top-level list, a mapping without the key, the key with no value, and
\* two documents.
FileContents ==
    {NoFile, None, PyList(<<>>), YamlMap({"debug"}, None),
     YamlMap({"debug", APP}, None), YamlMap({"debug", APP}, DocA),
     YamlMap({"debug", APP}, DocB)}

\* A handler the application attached before setup: handlers[i] of a logger.
AppHandler(id) == NewHandler(id, "StreamHandler", "sys.stderr")

\* Both loggers with n handlers of the application, level NOTSET.
AppRegistry(n) ==
    [name \in LoggerNames |->
        [level |-> 0,
         handlers |-> [i \in 1 .. n |->
                          AppHandler(IF name = "app" THEN i ELSE n + i)]]]

NoCall ==
    [op |-> "none", before |-> AppRegistry(0), ret |-> None, raised |-> "none",
     logs |-> <<>>, opens |-> <<>>, attached |-> NoneAttached]

----------------------------------------------------------------------------
\* The state machine.

\* Either any placement of files along the chain and any start directory,
\* or one document in the start directory and any number of handlers
\* already attached.
Init ==
    /\ \/ /\ fs \in [Dirs -> FileContents]
          /\ cwd \in Dirs
          /\ registry = AppRegistry(MaxPre)
          /\ nextId = 2 * MaxPre + 1
       \/ /\ \E d \in Documents :
                fs = [p \in Dirs |-> IF p = MaxDepth
                                     THEN YamlMap({"debug", APP}, PyDict(d))
                                     ELSE NoFile]
          /\ cwd = MaxDepth
          /\ \E n \in 0 .. MaxPre :
                /\ registry = AppRegistry(n)
                /\ nextId = 2 * n + 1
    /\ open = {}
    /\ calls = 0
    /\ last = NoCall

\* conf(path)
Conf ==
    /\ calls < MaxCalls
    /\ LET c == conf(fs, cwd)
       IN  last' = [op |-> "conf", before |-> registry, ret |-> c.ret,
                    raised |-> c.raised, logs |-> c.logs, opens |-> c.opens,
                    attached |-> NoneAttached]
    /\ calls' = calls + 1
    /\ UNCHANGED <<fs, cwd, registry, open, nextId>>

\* Nogging().setup(path)
Setup ==
    /\ calls < MaxCalls
    /\ LET r == setup(fs, cwd, registry, open, nextId)
       IN  /\ registry' = r.s.registry
           /\ open' = r.s.open
           /\ nextId' = r.s.nextId
           /\ last' = [op |-> "setup", before |-> registry, ret |-> r.conf.ret,
                       raised |-> r.s.raised, logs |-> r.s.logs,
                       opens |-> r.conf.opens, attached |-> r.s.attached]
    /\ calls' = calls + 1
    /\ UNCHANGED <<fs, cwd>>

\* The handlers some logger holds.
Attached == UNION {{registry[n].handlers[i].id : i \in 1 .. Len(registry[n].handlers)}
                   : n \in LoggerNames}

\* The runtime finalizes the FileHandlers nothing refers to any more, which
\* closes their streams.  Nothing in nogging closes a handler; when this
\* happens is up to the runtime.
Collect ==
    /\ open \ Attached # {}
    /\ open' = open \cap Attached
    /\ UNCHANGED <<fs, cwd, registry, nextId, calls, last>>

Next == Conf \/ Setup \/ Collect

Spec == Init /\ [][Next]_vars

----------------------------------------------------------------------------
\* What the properties speak of.

\* The last call was a call of conf, alone or from setup.
Resolved == last.op \in {"conf", "setup"}

\* The entries the last setup iterated over.
Entries == IF last.op = "setup" THEN OrEmptyDict(last.ret) ELSE <<>>

\* The directories conf may look into, and those that hold the file.
Chain == 0 .. cwd

Holding == {d \in Chain : fs[d].tag # "nofile"}

Nearest == CHOOSE d \in Holding : \A e \in Holding : e <= d

HasKey(file) == file.tag = "map" /\ APP \in file.keys

Logged(level, msg) ==
    \E i \in 1 .. Len(last.logs) :
        last.logs[i].level = level /\ last.logs[i].msg = msg

\* A handler without its identity: what it is and how it is set up.
Describe(h) ==
    [type |-> h.type, level |-> h.level, formatter |-> h.formatter,
     target |-> h.target]

DescribeAll(handlers) == [i \in 1 .. Len(handlers) |-> Describe(handlers[i])]

View(reg) ==
    [n \in LoggerNames |->
        [level |-> reg[n].level, handlers |-> DescribeAll(reg[n].handlers)]]

Ids(handlers) == {handlers[i].id : i \in 1 .. Len(handlers)}

IsList(v) == v.tag = "list"

Recognized(c) == c.type \in {"StreamHandler", "FileHandler"}

Unrecognized(c) == ~Recognized(c)

\* Every FileHandler entry of the config has its filename.
WellFormed(config) ==
    ("handlers" \in config.keys /\ IsList(config.handlers))
    => \A k \in 1 .. Len(config.handlers.items) :
          config.handlers.items[k].type = "FileHandler"
          => "filename" \in config.handlers.items[k].keys

AllWellFormed(entries) == \A i \in 1 .. Len(entries) : WellFormed(entries[i].config)

\* The severity a level of a config stands for.
Severity(v) == IF v.tag = "str" THEN LevelByName(v.str) ELSE v.int

\* What a recognized handler config asks for.
Asked(c) ==
    [type |-> c.type,
     level |-> IF "level" \in c.keys THEN Severity(c.level) ELSE 0,
     formatter |-> IF "format" \in c.keys THEN c.format ELSE "None",
     target |-> IF c.type = "FileHandler" THEN c.filename ELSE "sys.stdout"]

AskedAll(items) ==
    LET r == SelectSeq(items, Recognized)
    IN  [i \in 1 .. Len(r) |-> Asked(r[i])]

RECURSIVE UnrecognizedIn(_, _)
UnrecognizedIn(entries, i) ==
    IF i > Len(entries)
    THEN 0
    ELSE (IF IsList(entries[i].config.handlers) /\ "handlers" \in entries[i].config.keys
          THEN Len(SelectSeq(entries[i].config.handlers.items, Unrecognized))
          ELSE 0)
         + UnrecognizedIn(entries, i + 1)

InvalidTypeWarnings ==
    Len(SelectSeq(last.logs, LAMBDA l : l.msg = "invalid handler type"))

----------------------------------------------------------------------------
\* C1: setup with the same document a second time leaves every logger with
\* the level and the handlers (count, types, thresholds, formats, order) the
\* first setup left.
C1_ApplyTwiceIsApplyOnce ==
    [][(/\ last.op = "setup" /\ last.raised = "none"
        /\ last'.op = "setup" /\ calls' = calls + 1)
       => View(registry') = View(registry)]_vars

\* C2: a logger config with handlers: [] leaves the logger with no handler,
\* however many it had.
C2_EmptyListLeavesNone ==
    \A i \in 1 .. Len(Entries) :
        LET e == Entries[i]
        IN  ("handlers" \in e.config.keys /\ IsList(e.config.handlers)
             /\ e.config.handlers.items = <<>>)
            => registry[e.name].handlers = <<>>

\* C3: a logger config with a level and no handlers key sets the logger's
\* level to that severity and leaves its handler list as it was: the same
\* handler objects in the same order.
C3_LevelOnlyKeepsHandlers ==
    \A i \in 1 .. Len(Entries) :
        LET e == Entries[i]
        IN  ("level" \in e.config.keys /\ "handlers" \notin e.config.keys)
            => /\ registry[e.name].level = Severity(e.config.level)
               /\ registry[e.name].handlers = last.before[e.name].handlers

C3_Witness ==
    \E i \in 1 .. Len(Entries) :
        LET e == Entries[i]
        IN  /\ "level" \in e.config.keys /\ "handlers" \notin e.config.keys
            /\ Len(last.before[e.name].handlers) >= 2
            /\ last.before[e.name].level # registry[e.name].level

\* C4: whenever the handlers key is present, whatever its value, the handlers
\* the logger had are removed; stated for a logger that had at most one.
C4_PresentKeyClears ==
    \A i \in 1 .. Len(Entries) :
        LET e == Entries[i]
        IN  ("handlers" \in e.config.keys /\ Len(last.before[e.name].handlers) <= 1)
            => Ids(last.before[e.name].handlers) \cap Ids(registry[e.name].handlers) = {}

\* C5: with recognized (StreamHandler, FileHandler with its filename) and
\* unrecognized handler types mixed, setup does not
\* raise, warns once per unrecognized entry, sets the level, and attaches one
\* handler per recognized entry, in the entries' order; on a logger that had
\* no handler these are all its handlers.
C5_UnknownTypeSkipped ==
    /\ (Entries # <<>> /\ AllWellFormed(Entries)) =>
          /\ last.raised = "none"
          /\ InvalidTypeWarnings = UnrecognizedIn(Entries, 1)
    /\ \A i \in 1 .. Len(Entries) :
          LET e == Entries[i]
          IN  ("handlers" \in e.config.keys /\ IsList(e.config.handlers)
               /\ AllWellFormed(Entries))
              => /\ DescribeAll(last.attached[e.name]) = AskedAll(e.config.handlers.items)
                 /\ "level" \in e.config.keys
                       => registry[e.name].level = Severity(e.config.level)
                 /\ last.before[e.name].handlers = <<>>
                       => registry[e.name].handlers = last.attached[e.name]

C5_Witness ==
    \E i \in 1 .. Len(Entries) :
        LET e == Entries[i]
        IN  /\ "handlers" \in e.config.keys /\ IsList(e.config.handlers)
            /\ e.config.handlers.items = <<StreamConfig, BogusConfig, FileConfig>>
            /\ "level" \in e.config.keys
            /\ last.before[e.name].handlers = <<>>
            /\ Len(registry[e.name].handlers) = 2
            /\ InvalidTypeWarnings >= 1

\* C6: when directories of the chain hold the file, conf opens the file of
\* the nearest one (the start directory first, the root last) and no other,
\* and what it returns is that file's document.
C6_NearestAncestorFirst ==
    (Resolved /\ Holding # {})
    => /\ last.opens = <<Nearest>>
       /\ HasKey(fs[Nearest]) => last.ret = fs[Nearest][APP]
       /\ last.ret.tag = "dict" => (HasKey(fs[Nearest]) /\ last.ret = fs[Nearest][APP])

C6_Witness ==
    /\ Resolved
    /\ cwd = MaxDepth
    /\ Holding = {0, MaxDepth - 1}
    /\ fs[0] = YamlMap({"debug", APP}, DocB)
    /\ last.ret = DocA

\* C7: a file that is found but does not hold the key (a mapping without it,
\* an empty file, a file that is no mapping) makes conf log the format
\* error and return nothing without raising, and setup change nothing.
C7_KeyMissingAbsorbed ==
    (Resolved /\ Holding # {} /\ ~HasKey(fs[Nearest]))
    => /\ last.raised = "none"
       /\ last.ret.tag = "none"
       /\ Logged("ERROR", "format error")
       /\ registry = last.before

\* C8: when no directory of the chain holds the file, conf returns nothing
\* without raising, having tried to open the file once, in the root, and
\* setup leaves every logger as it was.
C8_MissingFileAbsorbed ==
    (Resolved /\ Holding = {})
    => /\ last.raised = "none"
       /\ last.ret.tag = "none"
       /\ last.opens = <<0>>
       /\ registry = last.before

C8_Witness ==
    /\ last.op = "setup"
    /\ Holding = {}
    /\ cwd = 0
    /\ registry["app"].handlers # <<>>

\* C9: the open file handles are exactly those of the FileHandlers some
\* logger holds.
C9_NoHandleLeak ==
    open = UNION {{registry[n].handlers[i].id :
                      i \in {k \in 1 .. Len(registry[n].handlers) :
                                registry[n].handlers[k].type = "FileHandler"}}
                  : n \in LoggerNames}

\* C10: a call of conf that returns logs the not-found warning only if it
\* returns nothing, and one that returns a document logs the using-config-file
\* line and no not-found warning.
C10_WarningExcludesDocument ==
    (Resolved /\ last.raised = "none")
    => /\ Logged("WARNING", "not found") => last.ret.tag = "none"
       /\ last.ret.tag = "dict"
             => (Logged("INFO", "using config file") /\ ~Logged("WARNING", "not found"))

====
